---- MODULE Spec2Model ----
(***************************************************************************)
(* Meta Ads Manager: materialization of an AI campaign specification       *)
(* against the Meta Marketing API.                                         *)
(*                                                                         *)
(*   routes/campaigns.js   POST /create-from-spec and the CRUD routes      *)
(*   services/meta-api.js  createCampaign / createAdSet / createAdCreative *)
(*                         / createAd / update* / activate* / pause*       *)
(*                                                                         *)
(* JavaScript objects are functions from field names to values; a field    *)
(* that is undefined is a name outside the DOMAIN.  Every await of a       *)
(* platform call is one step: the platform answers with an object          *)
(* carrying a fresh id, or with an error payload that metaRequest throws.  *)
(***************************************************************************)
EXTENDS Integers, Sequences, FiniteSets

VARIABLES
    spec,       \* req.body of POST /create-from-spec (mutated by the handler)
    pc,         \* position of the handler: start, adset, creative, ad, done, failed
    i,          \* index of the ad set of the outer loop (0 before the loop)
    j,          \* index of the ad of the inner loop (0 outside it)
    creative,   \* id of the creative just created (0 when none)
    results,    \* the handler's results object
    response,   \* what res.json sent to the caller (Null before)
    calls,      \* the platform requests this invocation issued, in order
    platform,   \* the objects that exist on the platform, by id
    activated,  \* ids an activate operation was issued for
    \* services/claude-ai.js: sanitizeMessages
    messages,   \* the argument of sanitizeMessages
    sanitized,  \* what sanitizeMessages returned (Null before the call)
    \* services/claude-ai.js: extractCampaignSpec, routes/ai.js: POST /extract-spec
    aiResponse,      \* the text handed to extractCampaignSpec (Null: undefined)
    extracted,       \* the outcome of extractCampaignSpec (Null before the call)
    extractResponse, \* what POST /extract-spec answered (Null before)
    \* services/meta-api.js: the create functions called directly
    callFn,     \* which create function is called
    callParams, \* its argument
    callBody,   \* the request body it sent (Null before the call)
    \* routes/ai.js: POST /chat
    chatReq,         \* req.body
    chatPc,          \* position of the handler
    fetches,         \* the context fetches the handler awaited, with their outcome
    storeContext,    \* the handler's storeContext (Null: null)
    campaignContext, \* the handler's campaignContext (Null: null)
    modelCall,       \* the request sent to the model (Null: none)
    chatResponse,    \* what the route answered (Null before)
    \* routes/settings.js: GET /api/settings in two environments
    env1,       \* process.env and the CLI credentials file of the first environment
    env2,       \* the same of the second environment
    settings1,  \* the response in the first environment (Null before)
    settings2,  \* the response in the second environment (Null before)
    \* public/js/app.js: the spec preview of addSpecPreview
    clientSpec,  \* the specification the preview closes over
    btn,         \* the Create as Draft button
    inflight,    \* the click handler awaits api('POST', '/campaigns/create-from-spec')
    submits,     \* how many times the specification was submitted
    chatHistory  \* the page's chatHistory

coreVars == <<spec, pc, i, j, creative, results, response, calls, platform, activated>>

sanVars == <<messages, sanitized>>

extVars == <<aiResponse, extracted, extractResponse>>

bodyVars == <<callFn, callParams, callBody>>

chatVars == <<chatReq, chatPc, fetches, storeContext, campaignContext, modelCall, chatResponse>>

setVars == <<env1, env2, settings1, settings2>>

cliVars == <<clientSpec, btn, inflight, submits, chatHistory>>

\* everything outside routes/campaigns.js
auxVars == <<sanVars, extVars, bodyVars, chatVars, setVars, cliVars>>

vars == <<coreVars, auxVars>>

\* ------------------------------------------------------------------ bounds

MaxAdSets == 2
MaxAds == 2
MaxObjects == 3

\* ----------------------------------------------------------- JS helpers

NoError == [code |-> 0, message |-> ""]

Null == [null |-> TRUE]

\* the parts of the application that take no part in a specification stand still
SanIdle == messages = Null /\ sanitized = Null

ExtIdle == aiResponse = Null /\ extracted = Null /\ extractResponse = Null

BodyIdle == callFn = Null /\ callParams = Null /\ callBody = Null

ChatIdle ==
    /\ chatReq = Null /\ chatPc = "idle" /\ fetches = <<>> /\ storeContext = Null
    /\ campaignContext = Null /\ modelCall = Null /\ chatResponse = Null

SetIdle ==
    /\ env1 = Null /\ env2 = Null
    /\ settings1 = Null /\ settings2 = Null

CliIdle ==
    /\ clientSpec = Null /\ btn = Null /\ inflight = FALSE
    /\ submits = 0 /\ chatHistory = <<>>

\* { ...a, ...b }: the fields of a, overridden and extended by those of b
Merge(a, b) ==
    [k \in DOMAIN a \cup DOMAIN b |-> IF k \in DOMAIN b THEN b[k] ELSE a[k]]

\* the fields `keys` of params that are defined (JSON.stringify drops undefined)
Pick(params, keys) == [k \in keys \cap DOMAIN params |-> params[k]]

\* params.k, a string, is truthy
TruthyStr(params, k) == k \in DOMAIN params /\ params[k] # ""

\* params.k, a number, is truthy
TruthyNum(params, k) == k \in DOMAIN params /\ params[k] # 0

\* the fields `keys` of params that are truthy numbers: if (params.k) body.k = params.k
PickTruthyNum(params, keys) ==
    [k \in {x \in keys : TruthyNum(params, x)} |-> params[k]]

\* the fields `keys` of params that are truthy strings
PickTruthyStr(params, keys) ==
    [k \in {x \in keys : TruthyStr(params, x)} |-> params[k]]

\* {}
EmptyObject == [x \in {} |-> 0]

\* ...params.extra
Extra(params) == IF "extra" \in DOMAIN params THEN params.extra ELSE EmptyObject

\* a default of ACTIVE
StatusOrActive(params) ==
    IF TruthyStr(params, "status") THEN params.status ELSE "ACTIVE"

\* params.status || 'PAUSED'
StatusOrPaused(params) ==
    IF TruthyStr(params, "status") THEN params.status ELSE "PAUSED"

Min(S) == CHOOSE x \in S : \A y \in S : x <= y

\* ------------------------------------------------- meta-api.js: bodies

CampaignBody(params) ==
    Merge(
        Merge(
            Merge(Pick(params, {"name", "objective"}),
                  [status |-> StatusOrPaused(params),
                   special_ad_categories |->
                       IF "special_ad_categories" \in DOMAIN params
                       THEN params.special_ad_categories ELSE <<>>]),
            Extra(params)),
        Merge(PickTruthyNum(params, {"daily_budget", "lifetime_budget"}),
              PickTruthyStr(params, {"bid_strategy"})))

AdSetBody(params) ==
    Merge(
        Merge(
            Merge(Pick(params, {"name", "campaign_id"}),
                  [status |-> StatusOrPaused(params),
                   optimization_goal |->
                       IF TruthyStr(params, "optimization_goal")
                       THEN params.optimization_goal ELSE "LINK_CLICKS",
                   billing_event |->
                       IF TruthyStr(params, "billing_event")
                       THEN params.billing_event ELSE "IMPRESSIONS",
                   targeting |->
                       IF "targeting" \in DOMAIN params
                       THEN params.targeting ELSE EmptyObject]),
            Extra(params)),
        Merge(PickTruthyNum(params, {"daily_budget", "lifetime_budget", "bid_amount"}),
              PickTruthyStr(params, {"start_time", "end_time"})))

AdCreativeBody(params) ==
    Merge(Pick(params, {"name", "object_story_spec"}), Extra(params))

AdBody(params) ==
    Merge(
        Merge(Pick(params, {"name", "adset_id", "creative"}),
              [status |-> StatusOrPaused(params)]),
        Extra(params))

\* ------------------------------------------------------------ the platform

\* the platform's error payloads (data.error of metaRequest)
Errors ==
    { [code |-> 100, message |-> "Invalid parameter"],
      [code |-> 190, message |-> "Invalid OAuth access token"] }

Outcomes == {NoError} \cup Errors

NextId == Len(platform) + 1

StatusOf(body) == IF "status" \in DOMAIN body THEN body.status ELSE "NONE"

\* POST <account>/<edge> with `body`, answered without error: the object exists
Created(kind, body) ==
    Append(platform, [id |-> NextId, kind |-> kind, status |-> StatusOf(body)])

\* POST <id> with `params`: the platform applies the fields it is given
Updated(id, params) ==
    [platform EXCEPT ![id] =
        IF "status" \in DOMAIN params THEN [@ EXCEPT !.status = params.status] ELSE @]

\* metaRequest('POST', ...) issued by the create-from-spec handler
Request(op, kind, body, out) ==
    /\ calls' = Append(calls, [op |-> op, body |-> body, ok |-> out = NoError,
                               id |-> IF out = NoError THEN NextId ELSE 0,
                               err |-> out])
    /\ platform' = IF out = NoError THEN Created(kind, body) ELSE platform

\* ----------------------------------------------------------------- inputs

CampaignEntries ==
    { [name |-> "Summer Sale", objective |-> "OUTCOME_SALES"],
      [name |-> "Summer Sale", objective |-> "OUTCOME_SALES", status |-> "PAUSED"],
      [name |-> "Summer Sale", objective |-> "OUTCOME_SALES", status |-> "ACTIVE"],
      [name |-> "Summer Sale", objective |-> "OUTCOME_SALES",
       extra |-> [status |-> "ACTIVE"]] }

AdSetEntries ==
    { [name |-> "US 18-65", daily_budget |-> 2000],
      [name |-> "US 18-65", lifetime_budget |-> 50000, status |-> "PAUSED"],
      [name |-> "US 18-65", daily_budget |-> 2000, status |-> "ACTIVE"],
      [name |-> "US 18-65", daily_budget |-> 2000, lifetime_budget |-> 50000],
      [name |-> "US 18-65", daily_budget |-> 2000, extra |-> [campaign_id |-> 99]],
      [name |-> "US 18-65"] }

AdEntries ==
    { [name |-> "Ad 1", status |-> "ACTIVE",
       creative |-> [object_story_spec |-> "link_data"]],
      [name |-> "Ad 2", extra |-> [status |-> "ACTIVE"],
       creative |-> [name |-> "Creative 2", object_story_spec |-> "link_data"]],
      [name |-> "Ad 3"] }

SeqsUpTo(S, n) == UNION { [1..k -> S] : k \in 0..n }

Specs ==
    { [campaign |-> c, ad_sets |-> s, ads |-> a] :
        c \in CampaignEntries, s \in SeqsUpTo(AdSetEntries, MaxAdSets),
        a \in SeqsUpTo(AdEntries, MaxAds) }
    \cup { [campaign |-> c] : c \in CampaignEntries }
    \cup { [ad_sets |-> <<>>, ads |-> <<>>] }

\* ------------------------------------------------ campaigns.js: the handler

\* spec.ad_sets || []
AdSetsOf(s) == IF "ad_sets" \in DOMAIN s THEN s.ad_sets ELSE <<>>

\* spec.ads || []
AdsOf(s) == IF "ads" \in DOMAIN s THEN s.ads ELSE <<>>

\* adSpec.creative && adSpec.creative.object_story_spec
HasCreative(adSpec) ==
    "creative" \in DOMAIN adSpec /\ TruthyStr(adSpec.creative, "object_story_spec")

\* an inner loop that leaves after the first ad it created (a stray break)
NextAdFirstOnly(s, k) ==
    LET C == {n \in 1..Len(AdsOf(s)) : HasCreative(AdsOf(s)[n])}
    IN  IF k # 0 \/ C = {} THEN 0 ELSE Min(C)

\* the next ad after index k the inner loop issues calls for (0: none)
NextAd(s, k) ==
    LET C == {n \in (k + 1)..Len(AdsOf(s)) : HasCreative(AdsOf(s)[n])}
    IN  IF C = {} THEN 0 ELSE Min(C)

\* adSetSpec.campaign_id = campaign.id
BindCampaign(s, n, id) ==
    [s EXCEPT !.ad_sets[n] = Merge(@, [campaign_id |-> id])]

\* the object passed to createAdCreative
CreativeParams(adSpec) ==
    [name |-> IF TruthyStr(adSpec.creative, "name")
              THEN adSpec.creative.name
              ELSE IF "name" \in DOMAIN adSpec THEN adSpec.name ELSE "undefined",
     object_story_spec |-> adSpec.creative.object_story_spec]

\* createAd given the two identifiers in each other's place
AdParamsSwapped(adSpec, adSetId, creativeId) ==
    Merge(Pick(adSpec, {"name"}),
          [adset_id |-> creativeId,
           creative |-> [creative_id |-> adSetId],
           status |-> "PAUSED"])

\* createAd given no creative identifier
AdParamsNoCreative(adSpec, adSetId, creativeId) ==
    Merge(Pick(adSpec, {"name"}),
          [adset_id |-> adSetId,
           creative |-> [creative_id |-> 0],
           status |-> "PAUSED"])

\* createAd given the entry's own status instead of the forced one
AdParamsEntryStatus(adSpec, adSetId, creativeId) ==
    Merge(Pick(adSpec, {"name", "status"}),
          [adset_id |-> adSetId,
           creative |-> [creative_id |-> creativeId]])

\* the object passed to createAd
AdParams(adSpec, adSetId, creativeId) ==
    Merge(Pick(adSpec, {"name"}),
          [adset_id |-> adSetId,
           creative |-> [creative_id |-> creativeId],
           status |-> "PAUSED"])

\* res.json({ success: true, results })
Respond(r) ==
    /\ pc' = "done"
    /\ response' = [status |-> 200, body |-> [success |-> TRUE, results |-> r]]

\* a catch block that reports the error and lets the loop go on
CatchAndContinue(err) ==
    /\ pc' = pc
    /\ response' = [status |-> 500,
                    body |-> [error |-> err.message, step |-> "create-from-spec"]]

\* catch (err): res.status(500).json({ error: err.message, step: 'create-from-spec' })
Catch(err) ==
    /\ pc' = "failed"
    /\ response' = [status |-> 500,
                    body |-> [error |-> err.message, step |-> "create-from-spec"]]

\* the loops' next position after ad k of ad set n (k = 0: the ad set was just created)
Advance(s, n, k, r) ==
    IF NextAd(s, k) # 0
    THEN pc' = "creative" /\ i' = n /\ j' = NextAd(s, k) /\ response' = response
    ELSE IF n < Len(AdSetsOf(s))
         THEN pc' = "adset" /\ i' = n + 1 /\ j' = 0 /\ response' = response
         ELSE Respond(r) /\ i' = n /\ j' = 0

\* 1. Create campaign
CreateCampaignStep ==
    /\ UNCHANGED auxVars
    /\ pc = "start"
    /\ IF "campaign" \notin DOMAIN spec
       THEN \* params.name of undefined throws before any request is made
            /\ Catch([code |-> 0, message |-> "TypeError"])
            /\ UNCHANGED <<spec, i, j, creative, results, calls, platform, activated>>
       ELSE \E out \in Outcomes :
            /\ Request("createCampaign", "campaign", CampaignBody(spec.campaign), out)
            /\ IF out = NoError
               THEN /\ results' = [results EXCEPT !.campaign = [id |-> NextId]]
                    /\ IF Len(AdSetsOf(spec)) > 0
                       THEN pc' = "adset" /\ i' = 1 /\ response' = response
                       ELSE Respond(results') /\ i' = i
               ELSE Catch(out) /\ UNCHANGED <<results, i>>
            /\ UNCHANGED <<spec, j, creative, activated>>

\* 2. Create ad sets
CreateAdSetStep ==
    /\ UNCHANGED auxVars
    /\ pc = "adset"
    /\ spec' = BindCampaign(spec, i, results.campaign.id)
    /\ \E out \in Outcomes :
        /\ Request("createAdSet", "adset", AdSetBody(spec'.ad_sets[i]), out)
        /\ IF out = NoError
           THEN /\ results' = [results EXCEPT !.ad_sets = Append(@, [id |-> NextId])]
                /\ Advance(spec', i, 0, results')
           ELSE Catch(out) /\ UNCHANGED <<results, i, j>>
    /\ UNCHANGED <<creative, activated>>

\* 3. Create ads for each ad set: the creative first
CreateCreativeStep ==
    /\ UNCHANGED auxVars
    /\ pc = "creative"
    /\ \E out \in Outcomes :
        /\ Request("createAdCreative", "creative",
                   AdCreativeBody(CreativeParams(AdsOf(spec)[j])), out)
        /\ IF out = NoError
           THEN pc' = "ad" /\ creative' = NextId /\ response' = response
           ELSE Catch(out) /\ creative' = creative
    /\ UNCHANGED <<spec, i, j, results, activated>>

\* 3. Create ads for each ad set: the ad with the creative reference
CreateAdStep ==
    /\ UNCHANGED auxVars
    /\ pc = "ad"
    /\ \E out \in Outcomes :
        /\ Request("createAd", "ad",
                   AdBody(AdParams(AdsOf(spec)[j], results.ad_sets[i].id, creative)), out)
        /\ IF out = NoError
           THEN /\ results' = [results EXCEPT !.ads = Append(@, [id |-> NextId])]
                /\ Advance(spec, i, j, results')
           ELSE Catch(out) /\ UNCHANGED <<results, i, j>>
    /\ UNCHANGED <<spec, creative, activated>>

Init ==
    /\ SanIdle /\ ExtIdle /\ BodyIdle /\ ChatIdle /\ SetIdle /\ CliIdle
    /\ spec \in Specs
    /\ pc = "start"
    /\ i = 0
    /\ j = 0
    /\ creative = 0
    /\ results = [campaign |-> Null, ad_sets |-> <<>>, ads |-> <<>>]
    /\ response = Null
    /\ calls = <<>>
    /\ platform = <<>>
    /\ activated = {}

Next ==
    \/ CreateCampaignStep
    \/ CreateAdSetStep
    \/ CreateCreativeStep
    \/ CreateAdStep

Spec == Init /\ [][Next]_vars

\* the handler answered
Terminated == pc \in {"done", "failed"}

Calls == 1..Len(calls)

\* ------------------------------------------- campaigns.js: the CRUD routes

Ids(kind) == {n \in 1..Len(platform) : platform[n].kind = kind}

\* what req.body of a PATCH route may hold
PatchBodies ==
    { [status |-> "ACTIVE"], [status |-> "PAUSED"], [name |-> "Renamed"] }

\* what req.body of POST /ads may hold
AdRouteBodies ==
    { [name |-> "Ad 1", creative |-> [creative_id |-> 0]],
      [name |-> "Ad 1", creative |-> [creative_id |-> 0], status |-> "ACTIVE"] }

RunVars == <<spec, pc, i, j, creative, results, response, calls>>

\* router.post('/') -> metaApi.createCampaign(req.body)
PostCampaign ==
    /\ UNCHANGED auxVars
    /\ Len(platform) < MaxObjects
    /\ \E params \in CampaignEntries :
        platform' = Created("campaign", CampaignBody(params))
    /\ UNCHANGED <<RunVars, activated>>

\* router.post('/adsets') -> metaApi.createAdSet(req.body)
PostAdSet ==
    /\ UNCHANGED auxVars
    /\ Len(platform) < MaxObjects
    /\ \E params \in AdSetEntries, c \in Ids("campaign") :
        platform' = Created("adset", AdSetBody(Merge(params, [campaign_id |-> c])))
    /\ UNCHANGED <<RunVars, activated>>

\* router.post('/creatives') -> metaApi.createAdCreative(req.body)
PostCreative ==
    /\ UNCHANGED auxVars
    /\ Len(platform) < MaxObjects
    /\ platform' = Created("creative",
                           AdCreativeBody([name |-> "Creative",
                                           object_story_spec |-> "link_data"]))
    /\ UNCHANGED <<RunVars, activated>>

\* router.post('/ads') -> metaApi.createAd(req.body)
PostAd ==
    /\ UNCHANGED auxVars
    /\ Len(platform) < MaxObjects
    /\ \E params \in AdRouteBodies, a \in Ids("adset") :
        platform' = Created("ad", AdBody(Merge(params, [adset_id |-> a])))
    /\ UNCHANGED <<RunVars, activated>>

\* router.patch('/:id') -> metaApi.updateCampaign(id, req.body)
PatchCampaign ==
    /\ UNCHANGED auxVars
    /\ \E id \in Ids("campaign"), params \in PatchBodies :
        platform' = Updated(id, params)
    /\ UNCHANGED <<RunVars, activated>>

\* router.patch('/adsets/:id') -> metaApi.updateAdSet(id, req.body)
PatchAdSet ==
    /\ UNCHANGED auxVars
    /\ \E id \in Ids("adset"), params \in PatchBodies :
        platform' = Updated(id, params)
    /\ UNCHANGED <<RunVars, activated>>

\* router.patch('/ads/:id') -> metaApi.updateAd(id, req.body)
PatchAd ==
    /\ UNCHANGED auxVars
    /\ \E id \in Ids("ad"), params \in PatchBodies :
        platform' = Updated(id, params)
    /\ UNCHANGED <<RunVars, activated>>

\* router.post('/:id/activate') -> activateCampaign -> updateCampaign(id, {status: 'ACTIVE'})
ActivateCampaign ==
    /\ UNCHANGED auxVars
    /\ \E id \in Ids("campaign") :
        /\ platform' = Updated(id, [status |-> "ACTIVE"])
        /\ activated' = activated \cup {id}
    /\ UNCHANGED RunVars

\* router.post('/:id/pause') -> pauseCampaign -> updateCampaign(id, {status: 'PAUSED'})
PauseCampaign ==
    /\ UNCHANGED auxVars
    /\ \E id \in Ids("campaign") :
        platform' = Updated(id, [status |-> "PAUSED"])
    /\ UNCHANGED <<RunVars, activated>>

\* router.post('/adsets/:id/activate') -> activateAdSet -> updateAdSet(id, {status: 'ACTIVE'})
ActivateAdSet ==
    /\ UNCHANGED auxVars
    /\ \E id \in Ids("adset") :
        /\ platform' = Updated(id, [status |-> "ACTIVE"])
        /\ activated' = activated \cup {id}
    /\ UNCHANGED RunVars

\* router.post('/ads/:id/activate') -> activateAd -> updateAd(id, {status: 'ACTIVE'})
ActivateAd ==
    /\ UNCHANGED auxVars
    /\ \E id \in Ids("ad") :
        /\ platform' = Updated(id, [status |-> "ACTIVE"])
        /\ activated' = activated \cup {id}
    /\ UNCHANGED RunVars

\* the specifications one request of the application run carries
AppSpecs ==
    { [campaign |-> c,
       ad_sets |-> <<[name |-> "US 18-65", daily_budget |-> 2000]>>,
       ads |-> <<[name |-> "Ad 1", status |-> "ACTIVE",
                  creative |-> [object_story_spec |-> "link_data"]]>>] :
        c \in { [name |-> "Summer Sale", objective |-> "OUTCOME_SALES"],
                [name |-> "Summer Sale", objective |-> "OUTCOME_SALES",
                 status |-> "ACTIVE"] } }

InitApp ==
    /\ SanIdle /\ ExtIdle /\ BodyIdle /\ ChatIdle /\ SetIdle /\ CliIdle
    /\ spec \in AppSpecs
    /\ pc = "start"
    /\ i = 0
    /\ j = 0
    /\ creative = 0
    /\ results = [campaign |-> Null, ad_sets |-> <<>>, ads |-> <<>>]
    /\ response = Null
    /\ calls = <<>>
    /\ platform = <<>>
    /\ activated = {}

NextApp ==
    \/ Next
    \/ PostCampaign
    \/ PostAdSet
    \/ PostCreative
    \/ PostAd
    \/ PatchCampaign
    \/ PatchAdSet
    \/ PatchAd
    \/ ActivateCampaign
    \/ PauseCampaign
    \/ ActivateAdSet
    \/ ActivateAd

\* the whole application: the routes in any order, one create-from-spec run among them
SpecApp == InitApp /\ [][NextApp]_vars

\* ------------------------------------- app.js: the Create as Draft button

MaxSubmits == 2

\* the preview is only added for a parsed object with a truthy campaign
PreviewSpecs == AppSpecs

\* a success handler that re-enables the button
CreatedReenabled(b) == [disabled |-> FALSE, text |-> "Created!"]

\* result.success: btn.textContent = 'Created!' (btn.disabled is left as it is)
ShowCreated(b) == [b EXCEPT !.text = "Created!"]

\* result.success falsy, or the await threw: 'Failed - Try Again', btn.disabled = false
FailedTryAgain(b) == [disabled |-> FALSE, text |-> "Failed - Try Again"]

\* the two chatHistory.push of the success branch
Confirmed(h) ==
    h \o << [role |-> "user", content |-> "I approved the campaign spec."],
            [role |-> "assistant", content |-> "Your campaign has been created as a draft"] >>

\* a handler that changes the label and leaves the button enabled
CreatingEnabled(b) == [disabled |-> b.disabled, text |-> "Creating..."]

\* btn.disabled = true; btn.textContent = 'Creating...'
Creating(b) == [disabled |-> TRUE, text |-> "Creating..."]

\* click on #btn-create-draft (a disabled button dispatches no click): the
\* handler disables the button and posts the specification
ClickCreateDraft ==
    /\ ~btn.disabled
    /\ submits < MaxSubmits
    /\ btn' = Creating(btn)
    /\ inflight' = TRUE
    /\ submits' = submits + 1
    /\ spec' = clientSpec
    /\ pc' = "start"
    /\ i' = 0
    /\ j' = 0
    /\ creative' = 0
    /\ results' = [campaign |-> Null, ad_sets |-> <<>>, ads |-> <<>>]
    /\ response' = Null
    /\ calls' = <<>>
    /\ UNCHANGED <<platform, activated, clientSpec, chatHistory>>
    /\ UNCHANGED <<sanVars, extVars, bodyVars, chatVars, setVars>>

\* the await returns the route's JSON
ReceiveResult ==
    /\ inflight
    /\ Terminated
    /\ inflight' = FALSE
    /\ IF response.status = 200 /\ response.body.success
       THEN btn' = ShowCreated(btn) /\ chatHistory' = Confirmed(chatHistory)
       ELSE btn' = FailedTryAgain(btn) /\ chatHistory' = chatHistory
    /\ pc' = "idle"
    /\ UNCHANGED <<spec, i, j, creative, results, response, calls, platform, activated>>
    /\ UNCHANGED <<clientSpec, submits>>
    /\ UNCHANGED <<sanVars, extVars, bodyVars, chatVars, setVars>>

\* the await throws: the request never reached the route, or its answer was lost
RequestFails ==
    /\ inflight
    /\ pc = "start" \/ Terminated
    /\ inflight' = FALSE
    /\ btn' = FailedTryAgain(btn)
    /\ pc' = "idle"
    /\ UNCHANGED <<spec, i, j, creative, results, response, calls, platform, activated>>
    /\ UNCHANGED <<clientSpec, submits, chatHistory>>
    /\ UNCHANGED <<sanVars, extVars, bodyVars, chatVars, setVars>>

InitClient ==
    /\ SanIdle /\ ExtIdle /\ BodyIdle /\ ChatIdle /\ SetIdle
    /\ clientSpec \in PreviewSpecs
    /\ btn = [disabled |-> FALSE, text |-> "Create as Draft"]
    /\ inflight = FALSE
    /\ submits = 0
    /\ chatHistory = <<>>
    /\ spec = Null
    /\ pc = "idle"
    /\ i = 0
    /\ j = 0
    /\ creative = 0
    /\ results = [campaign |-> Null, ad_sets |-> <<>>, ads |-> <<>>]
    /\ response = Null
    /\ calls = <<>>
    /\ platform = <<>>
    /\ activated = {}

NextClient ==
    \/ ClickCreateDraft
    \/ ReceiveResult
    \/ RequestFails
    \/ CreateCampaignStep
    \/ CreateAdSetStep
    \/ CreateCreativeStep
    \/ CreateAdStep

\* one spec preview, its button and the route it posts to
SpecClient == InitClient /\ [][NextClient]_vars

\* C12 as stated: once submitted, whether the submission succeeds or fails,
\* the specification of a preview is never submitted a second time.
SubmittedAtMostOnce == submits <= 1

\* C12 amended: once a submission of a preview has succeeded, its
\* specification is never submitted again and the button stays disabled.
NoSubmitAfterSuccess ==
    [][btn.text = "Created!" => (submits' = submits /\ btn' = btn /\ ~inflight')]_vars

\* C12 witness: a submission failed, the specification was submitted again
\* and that submission succeeded.
CreatedAfterRetry ==
    /\ btn.text = "Created!"
    /\ btn.disabled
    /\ submits >= 2
    /\ spec # Null /\ AdSetsOf(spec) # <<>>


\* ------------------------------------------- claude-ai.js: sanitizeMessages

MaxMsgs == 3

\* a JavaScript string, as the sequence of its characters
Str(s) == [str |-> s]

\* a JavaScript array
Arr(s) == [arr |-> s]

\* a value that is neither a string nor an array
NotString == [num |-> 0]

\* typeof v === 'string'
IsString(v) == "str" \in DOMAIN v

\* Array.isArray(v)
IsArray(v) == "arr" \in DOMAIN v

\* s.trim() is truthy
TrimTruthy(s) == \E k \in 1..Len(s) : s[k] # " "

\* '\n\n'
ParagraphBreak == <<"\n", "\n">>

\* 'Hello'
Hello == <<"Hello">>

MsgRoles == {"user", "assistant", "system"}

MsgTexts == { <<" ">>, <<"a">>, <<"b">> }

\* the entries a caller can put in the list: well-formed ones, null, and
\* entries with a missing, empty or non-string role or content
MsgEntries ==
    { [role |-> Str(r), content |-> Str(t)] : r \in MsgRoles, t \in MsgTexts }
    \cup { Null,
           [content |-> Str(<<"a">>)],
           [role |-> Str("user")],
           [role |-> NotString, content |-> Str(<<"a">>)],
           [role |-> Str("assistant"), content |-> NotString],
           [role |-> Str("user"), content |-> Str(<<>>)] }

MessageLists == { Arr(l) : l \in SeqsUpTo(MsgEntries, MaxMsgs) } \cup { Null, NotString }

\* a filter that keeps blank texts
RetainedUntrimmed(m) ==
    /\ m # Null
    /\ "role" \in DOMAIN m /\ IsString(m.role)
    /\ "content" \in DOMAIN m /\ IsString(m.content)
    /\ m.content.str # <<>>

\* the filter predicate
Retained(m) ==
    /\ m # Null
    /\ "role" \in DOMAIN m /\ IsString(m.role)
    /\ "content" \in DOMAIN m /\ IsString(m.content)
    /\ TrimTruthy(m.content.str)

\* a map callback that keeps the role it is given
RoleKept(m) == [role |-> m.role.str, content |-> m.content.str]

\* the map callback
Normalized(m) ==
    [role |-> IF m.role.str = "assistant" THEN "assistant" ELSE "user",
     content |-> m.content.str]

RECURSIVE MapNormalized(_)
MapNormalized(l) ==
    IF l = <<>> THEN <<>> ELSE <<Normalized(Head(l))>> \o MapNormalized(Tail(l))

\* .filter(...).map(...)
Cleaned(l) == MapNormalized(SelectSeq(l, Retained))

\* a merge test that never merges
NeverSameRole(prev, msg) == FALSE

\* prev && prev.role === msg.role
SameRole(prev, msg) == prev.role = msg.role

\* a join in the wrong order
JoinedReversed(prev, msg) == msg.content \o ParagraphBreak \o prev.content

\* prev.content + '\n\n' + msg.content
Joined(prev, msg) == prev.content \o ParagraphBreak \o msg.content

\* the for loop over cleaned, merged so far in acc
RECURSIVE MergeLoop(_, _)
MergeLoop(acc, rest) ==
    IF rest = <<>> THEN acc
    ELSE LET msg == Head(rest)
             n == Len(acc)
         IN IF n > 0 /\ SameRole(acc[n], msg)
            THEN MergeLoop([acc EXCEPT ![n].content = Joined(acc[n], msg)], Tail(rest))
            ELSE MergeLoop(Append(acc, msg), Tail(rest))

Merged(cleaned) == MergeLoop(<<>>, cleaned)

\* a first-turn test that always asks for a user turn
AlwaysUnshift(merged) == TRUE

\* merged[0].role !== 'user'
NeedsUnshift(merged) == merged[1].role # "user"

SanitizeMessages(msgs) ==
    IF ~IsArray(msgs) \/ msgs.arr = <<>> THEN <<>>
    ELSE LET cleaned == Cleaned(msgs.arr)
         IN IF cleaned = <<>> THEN <<>>
            ELSE LET merged == Merged(cleaned)
                 IN IF NeedsUnshift(merged)
                    THEN <<[role |-> "user", content |-> Hello]>> \o merged
                    ELSE merged

\* The same function over a heap, to follow which objects it writes to: the
\* entries of the input array are the objects 1..n, in order.

\* the input positions the filter keeps, in order
RECURSIVE KeptRefs(_, _)
KeptRefs(h, k) ==
    IF k > Len(h) THEN <<>>
    ELSE (IF Retained(h[k]) THEN <<k>> ELSE <<>>) \o KeptRefs(h, k + 1)

\* a map callback that assigns the role to the entry itself and returns it
SameObject(n, idx, r) == r

\* the map callback returns a new object literal: the idx-th new object
NewObject(n, idx, r) == n + idx

\* the heap after .filter(...).map(...) and the objects of cleaned
AfterMap(h) ==
    LET n == Len(h)
        kept == KeptRefs(h, 1)
        refs == [x \in 1..Len(kept) |-> NewObject(n, x, kept[x])]
        made(k) == \E x \in 1..Len(kept) : refs[x] = k
        from(k) == h[kept[CHOOSE x \in 1..Len(kept) : refs[x] = k]]
    IN [heap |-> [k \in 1..(n + Len(kept)) |->
                    IF made(k)
                    THEN [role |-> Str(Normalized(from(k)).role), content |-> from(k).content]
                    ELSE IF k <= n THEN h[k] ELSE Null],
        refs |-> refs]

\* the merge loop: prev.content += '\n\n' + msg.content writes to object prev
RECURSIVE MergeRefs(_, _, _)
MergeRefs(h, acc, rest) ==
    IF rest = <<>> THEN [heap |-> h, refs |-> acc]
    ELSE LET r == Head(rest)
             prev == IF acc = <<>> THEN 0 ELSE acc[Len(acc)]
         IN IF prev # 0 /\ h[prev].role = h[r].role
            THEN MergeRefs(
                    [h EXCEPT ![prev].content =
                        Str(@.str \o ParagraphBreak \o h[r].content.str)],
                    acc, Tail(rest))
            ELSE MergeRefs(h, Append(acc, r), Tail(rest))

\* the heap and the returned array after sanitizeMessages(msgs)
SanitizeOnHeap(msgs) ==
    IF ~IsArray(msgs) \/ msgs.arr = <<>> THEN [heap |-> <<>>, refs |-> <<>>]
    ELSE LET m == AfterMap(msgs.arr)
         IN IF m.refs = <<>> THEN [heap |-> m.heap, refs |-> <<>>]
            ELSE LET g == MergeRefs(m.heap, <<>>, m.refs)
                 IN IF g.heap[g.refs[1]].role.str # "user"
                    THEN [heap |-> Append(g.heap, [role |-> Str("user"), content |-> Str(Hello)]),
                          refs |-> <<Len(g.heap) + 1>> \o g.refs]
                    ELSE g

\* the input array as the call leaves it
InputAfter(msgs) ==
    IF ~IsArray(msgs) THEN msgs
    ELSE Arr(SubSeq(SanitizeOnHeap(msgs).heap, 1, Len(msgs.arr)))

\* the returned array, by value
OutputOnHeap(msgs) ==
    LET g == SanitizeOnHeap(msgs)
    IN [k \in 1..Len(g.refs) |->
          [role |-> g.heap[g.refs[k]].role.str, content |-> g.heap[g.refs[k]].content.str]]

\* a call of sanitizeMessages(messages)
Sanitize ==
    /\ sanitized = Null
    /\ sanitized' = Arr(SanitizeMessages(messages))
    /\ messages' = InputAfter(messages)
    /\ UNCHANGED <<coreVars, extVars, bodyVars, chatVars, setVars, cliVars>>

CoreIdle ==
    /\ spec = Null
    /\ pc = "idle"
    /\ i = 0
    /\ j = 0
    /\ creative = 0
    /\ results = [campaign |-> Null, ad_sets |-> <<>>, ads |-> <<>>]
    /\ response = Null
    /\ calls = <<>>
    /\ platform = <<>>
    /\ activated = {}

InitSan ==
    /\ CoreIdle /\ ExtIdle /\ BodyIdle /\ ChatIdle /\ SetIdle /\ CliIdle
    /\ messages \in MessageLists
    /\ sanitized = Null

NextSan == Sanitize

\* sanitizeMessages applied to every bounded list of entries
SpecSan == InitSan /\ [][NextSan]_vars

\* C13: the output of sanitizeMessages is empty, or it starts with a user
\* turn and its roles alternate user, assistant, user, ...
OutputAlternates ==
    sanitized # Null =>
        \A k \in 1..Len(sanitized.arr) :
            sanitized.arr[k].role = (IF k % 2 = 1 THEN "user" ELSE "assistant")

\* C13 witness: an input with two adjacent entries of one role and an
\* assistant entry first was normalised to three alternating turns.
AlternatesAfterMerge ==
    /\ sanitized # Null
    /\ IsArray(messages)
    /\ Len(Cleaned(messages.arr)) = 3
    /\ Cleaned(messages.arr)[1].role = "assistant"
    /\ Cleaned(messages.arr)[2].role = "assistant"
    /\ Cleaned(messages.arr)[3].role = "user"
    /\ Len(sanitized.arr) = 3

\* C14 as stated: whatever the input, the output is a conversation with a
\* user turn first (a synthetic one when nothing is retained).
OutputStartsWithUser ==
    sanitized # Null =>
        Len(sanitized.arr) > 0 /\ sanitized.arr[1].role = "user"

\* the runs of Cleaned(l): positions where the role changes
RunStarts(c) == { k \in 1..Len(c) : k = 1 \/ c[k].role # c[k - 1].role }

\* the last position of the run that starts at k
RunEnd(c, k) ==
    CHOOSE e \in k..Len(c) :
        /\ \A x \in k..e : c[x].role = c[k].role
        /\ e = Len(c) \/ c[e + 1].role # c[k].role

\* the n-th run start
NthStart(c, n) ==
    CHOOSE k \in RunStarts(c) : Cardinality({ x \in RunStarts(c) : x <= k }) = n

\* texts k..e with a paragraph break between neighbours
RECURSIVE JoinTexts(_, _, _)
JoinTexts(c, k, e) ==
    IF k = e THEN c[k].content
    ELSE c[k].content \o ParagraphBreak \o JoinTexts(c, k + 1, e)

\* the output without a prepended synthetic turn
OwnTurns(c, out) ==
    IF c # <<>> /\ c[1].role # "user" THEN Tail(out) ELSE out

\* C15: every run of consecutive same-role retained entries is one output
\* turn, in order, whose text is the run's texts in order with a paragraph
\* break between neighbours.
RunsMergedInOrder ==
    (sanitized # Null /\ IsArray(messages)) =>
        LET c == Cleaned(messages.arr)
            out == OwnTurns(c, sanitized.arr)
        IN /\ Len(out) = Cardinality(RunStarts(c))
           /\ \A n \in 1..Len(out) :
                LET k == NthStart(c, n)
                IN /\ out[n].role = c[k].role
                   /\ out[n].content = JoinTexts(c, k, RunEnd(c, k))

\* C15 witness: a run of three user entries with distinct texts order was
\* merged into one turn.
ThreeMergedIntoOne ==
    /\ sanitized # Null
    /\ IsArray(messages)
    /\ Len(Cleaned(messages.arr)) = 3
    /\ Len(sanitized.arr) = 1
    /\ sanitized.arr[1].content = <<"a">> \o ParagraphBreak \o <<"b">> \o ParagraphBreak \o <<"a">>

\* ---------------------------------------- claude-ai.js: extractCampaignSpec

MaxParts == 3

\* A response text is a sequence of tokens: "FO" is ```json, "F" is ```,
\* "KV" is "campaign":1, "X" is "other":1, "0" is the number 0, "P" is a
\* word of prose; white space is not represented.
Prose == <<"P">>

CampaignObject == <<"{", "KV", "}">>

OtherObject == <<"{", "X", "}">>

BrokenObject == <<"{", "KV">>

Zero == <<"0">>

Fenced(x) == <<"FO">> \o x \o <<"F">>

Unterminated == <<"FO">> \o CampaignObject

TextParts ==
    { Prose, CampaignObject, OtherObject, BrokenObject, Unterminated,
      Fenced(CampaignObject), Fenced(OtherObject), Fenced(BrokenObject), Fenced(Zero) }

RECURSIVE Concat(_)
Concat(l) == IF l = <<>> THEN <<>> ELSE Head(l) \o Concat(Tail(l))

\* the argument: a string, a non-string or undefined
ResponseTexts ==
    { Str(Concat(l)) : l \in SeqsUpTo(TextParts, MaxParts) } \cup { Null, NotString }

\* JSON.parse: ok is FALSE where it throws a SyntaxError
JsonParse(t) ==
    IF t = Zero THEN [ok |-> TRUE, value |-> [num |-> 0]]
    ELSE IF t = <<"{", "}">> THEN [ok |-> TRUE, value |-> [obj |-> {}]]
    ELSE IF t = CampaignObject THEN [ok |-> TRUE, value |-> [obj |-> {"campaign"}]]
    ELSE IF t = OtherObject THEN [ok |-> TRUE, value |-> [obj |-> {"other"}]]
    ELSE [ok |-> FALSE, value |-> Null]

\* the least index from k on whose token is in S, 0 if there is none
RECURSIVE IndexFrom(_, _, _)
IndexFrom(t, k, S) ==
    IF k > Len(t) THEN 0
    ELSE IF t[k] \in S THEN k
    ELSE IndexFrom(t, k + 1, S)

\* the greatest index whose token is in S, 0 if there is none
RECURSIVE LastIndex(_, _, _)
LastIndex(t, k, S) ==
    IF k = 0 THEN 0
    ELSE IF t[k] \in S THEN k
    ELSE LastIndex(t, k - 1, S)

\* a greedy group: up to the last ```
FenceEndGreedy(t, a) ==
    LET e == LastIndex(t, Len(t), {"F", "FO"}) IN IF e > a THEN e ELSE 0

\* ([\s\S]*?)``` : the lazy group ends at the next ```
FenceEnd(t, a) == IndexFrom(t, a + 1, {"F", "FO"})

\* aiResponse.match(/```json\n?([\s\S]*?)```/)
JsonMatch(t) ==
    LET a == IndexFrom(t, 1, {"FO"})
        b == IF a = 0 THEN 0 ELSE FenceEnd(t, a)
    IN IF b = 0 THEN [matched |-> FALSE, text |-> <<>>]
       ELSE [matched |-> TRUE, text |-> SubSeq(t, a + 1, b - 1)]

\* aiResponse.match(/\{[\s\S]*"campaign"[\s\S]*\}/)
ObjectMatch(t) ==
    LET a == IndexFrom(t, 1, {"{"})
        e == LastIndex(t, Len(t), {"}"})
    IN IF a > 0 /\ \E k \in (a + 1)..(e - 1) : t[k] = "KV"
       THEN [matched |-> TRUE, text |-> SubSeq(t, a, e)]
       ELSE [matched |-> FALSE, text |-> <<>>]

\* what a call does: it throws, or returns value found by the strategy by
ExtractCampaignSpec(v) ==
    IF ~IsString(v) THEN [threw |-> TRUE]
    ELSE LET jsonMatch == JsonMatch(v.str)
             objectMatch == ObjectMatch(v.str)
         IN IF jsonMatch.matched /\ JsonParse(jsonMatch.text).ok
            THEN [threw |-> FALSE, by |-> "fenced", value |-> JsonParse(jsonMatch.text).value]
            ELSE IF objectMatch.matched /\ JsonParse(objectMatch.text).ok
            THEN [threw |-> FALSE, by |-> "object", value |-> JsonParse(objectMatch.text).value]
            ELSE [threw |-> FALSE, by |-> "none", value |-> Null]

\* if (spec)
TruthyValue(v) == "obj" \in DOMAIN v

\* a call of extractCampaignSpec(aiResponse)
Extract ==
    /\ extracted = Null
    /\ extracted' = ExtractCampaignSpec(aiResponse)
    /\ UNCHANGED <<aiResponse, extractResponse>>
    /\ UNCHANGED <<coreVars, sanVars, bodyVars, chatVars, setVars, cliVars>>

\* POST /extract-spec with req.body.text = aiResponse: a throw of the
\* synchronous handler is answered by the framework with status 500
PostExtractSpec ==
    /\ extractResponse = Null
    /\ LET r == ExtractCampaignSpec(aiResponse)
       IN extractResponse' =
            IF r.threw THEN [status |-> 500]
            ELSE IF TruthyValue(r.value)
            THEN [status |-> 200, body |-> [success |-> TRUE, spec |-> r.value]]
            ELSE [status |-> 200, body |-> [success |-> FALSE]]
    /\ UNCHANGED <<aiResponse, extracted>>
    /\ UNCHANGED <<coreVars, sanVars, bodyVars, chatVars, setVars, cliVars>>

InitExtract ==
    /\ CoreIdle /\ SanIdle /\ BodyIdle /\ ChatIdle /\ SetIdle /\ CliIdle
    /\ aiResponse \in ResponseTexts
    /\ extracted = Null
    /\ extractResponse = Null

NextExtract ==
    \/ Extract
    \/ PostExtractSpec

\* extractCampaignSpec and its route applied to every bounded text
SpecExtract == InitExtract /\ [][NextExtract]_vars

\* the fenced blocks of t: an opening ```json and the next ``` after it
FencedBlocks(t) ==
    { p \in (1..Len(t)) \X (1..Len(t)) :
        /\ t[p[1]] = "FO"
        /\ p[1] < p[2]
        /\ t[p[2]] \in {"F", "FO"}
        /\ \A x \in (p[1] + 1)..(p[2] - 1) : t[x] \notin {"F", "FO"} }

BlockText(t, p) == SubSeq(t, p[1] + 1, p[2] - 1)

FirstBlock(t) == CHOOSE p \in FencedBlocks(t) : \A q \in FencedBlocks(t) : p[1] <= q[1]

\* C16 as stated: when some fenced json block of the text has content that
\* parses, the extractor returns the content of such a block; the brace
\* fallback is used only when no fenced block parses.
AnyParsableBlockReturned ==
    (extracted # Null /\ IsString(aiResponse)) =>
        LET t == aiResponse.str
            parsable == { p \in FencedBlocks(t) : JsonParse(BlockText(t, p)).ok }
        IN IF parsable # {}
           THEN /\ extracted.by = "fenced"
                /\ \E p \in parsable : extracted.value = JsonParse(BlockText(t, p)).value
           ELSE extracted.by # "fenced"

\* C16 amended: when the first fenced json block of the text has content
\* that parses, the extractor returns that content, whatever loose JSON the
\* text also holds; the brace fallback is tried only when there is no fenced
\* block or the first one fails to parse.
FirstBlockReturned ==
    (extracted # Null /\ IsString(aiResponse)) =>
        LET t == aiResponse.str
        IN IF FencedBlocks(t) # {} /\ JsonParse(BlockText(t, FirstBlock(t))).ok
           THEN /\ ~extracted.threw
                /\ extracted.by = "fenced"
                /\ extracted.value = JsonParse(BlockText(t, FirstBlock(t))).value
           ELSE extracted.by # "fenced"

\* C16 witness: a fenced block without a campaign key was returned although
\* a loose object with a campaign key precedes it.
FencedReturnedOverLoose ==
    /\ extracted # Null
    /\ IsString(aiResponse)
    /\ aiResponse.str = CampaignObject \o Prose \o Fenced(OtherObject)
    /\ extracted.value = [obj |-> {"other"}]

\* C17 as stated: extractCampaignSpec never throws, and POST /extract-spec
\* answers success:false whenever no specification is found.
ExtractNeverThrows ==
    /\ extracted # Null => ~extracted.threw
    /\ extractResponse # Null =>
         /\ extractResponse.status = 200
         /\ extractResponse.body.success = TruthyValue(ExtractCampaignSpec(aiResponse).value)

\* ------------------------------------------------- routes/ai.js: POST /chat

MaxChatMsgs == 2

ChatEntries ==
    { [role |-> Str("user"), content |-> Str(<<"a">>)],
      [role |-> Str("assistant"), content |-> Str(<<"b">>)],
      [role |-> Str("user"), content |-> Str(<<" ">>)] }

ChatRequests ==
    { [messages |-> m, includeStoreData |-> s, includeCampaignData |-> c] :
        m \in { Arr(l) : l \in SeqsUpTo(ChatEntries, MaxChatMsgs) } \cup { Null },
        s \in BOOLEAN, c \in BOOLEAN }

\* what getStoreSummary resolves to when every Shopify request succeeds
StoreSummary == [store |-> "shop", product_count |-> 1]

\* what listCampaigns resolves to
CampaignList == [data |-> <<>>]

\* getStoreSummary: the catch block returns { error: err.message }
GetStoreSummary(ok) == IF ok THEN StoreSummary ELSE [error |-> "Shopify API error"]

\* chat: contextParts, one part per truthy context
ContextParts(store, campaigns) ==
    (IF store # Null THEN <<[tag |-> "store_data", data |-> store]>> ELSE <<>>)
    \o (IF campaigns # Null THEN <<[tag |-> "campaign_data", data |-> campaigns]>> ELSE <<>>)

\* if (includeStoreData) storeContext = await shopifyApi.getStoreSummary()
FetchStore ==
    /\ chatPc = "store"
    /\ IF chatReq.includeStoreData
       THEN \E ok \in BOOLEAN :
              /\ storeContext' = GetStoreSummary(ok)
              /\ fetches' = Append(fetches, [tag |-> "store_data", ok |-> ok])
       ELSE UNCHANGED <<storeContext, fetches>>
    /\ chatPc' = "campaigns"
    /\ UNCHANGED <<chatReq, campaignContext, modelCall, chatResponse>>
    /\ UNCHANGED <<coreVars, sanVars, extVars, bodyVars, setVars, cliVars>>

\* if (includeCampaignData) try { campaignContext = await metaApi.listCampaigns() } catch {}
FetchCampaigns ==
    /\ chatPc = "campaigns"
    /\ IF chatReq.includeCampaignData
       THEN \E ok \in BOOLEAN :
              /\ campaignContext' = IF ok THEN CampaignList ELSE campaignContext
              /\ fetches' = Append(fetches, [tag |-> "campaign_data", ok |-> ok])
       ELSE UNCHANGED <<campaignContext, fetches>>
    /\ chatPc' = "model"
    /\ UNCHANGED <<chatReq, storeContext, modelCall, chatResponse>>
    /\ UNCHANGED <<coreVars, sanVars, extVars, bodyVars, setVars, cliVars>>

\* claudeAi.chat(messages, storeContext, campaignContext) and the answer of
\* the route; the model API rejects an empty message list
CallModel ==
    /\ chatPc = "model"
    /\ modelCall' = [context |-> ContextParts(storeContext, campaignContext),
                     messages |-> SanitizeMessages(chatReq.messages)]
    /\ \E ok \in (IF modelCall'.messages = <<>> THEN {FALSE} ELSE BOOLEAN) :
         chatResponse' = IF ok THEN [status |-> 200] ELSE [status |-> 500]
    /\ chatPc' = "done"
    /\ UNCHANGED <<chatReq, fetches, storeContext, campaignContext>>
    /\ UNCHANGED <<coreVars, sanVars, extVars, bodyVars, setVars, cliVars>>

InitChat ==
    /\ CoreIdle /\ SanIdle /\ ExtIdle /\ BodyIdle /\ SetIdle /\ CliIdle
    /\ chatReq \in ChatRequests
    /\ chatPc = "store"
    /\ fetches = <<>>
    /\ storeContext = Null
    /\ campaignContext = Null
    /\ modelCall = Null
    /\ chatResponse = Null

NextChat ==
    \/ FetchStore
    \/ FetchCampaigns
    \/ CallModel

\* one POST /chat request
SpecChat == InitChat /\ [][NextChat]_vars

\* C18 as stated: the request is never aborted by a failed context fetch,
\* the model is called, and a context whose fetch failed is not in the prompt.
FailedContextLeftOut ==
    chatPc = "done" =>
        /\ modelCall # Null
        /\ \A f \in 1..Len(fetches) :
             ~fetches[f].ok =>
                \A c \in 1..Len(modelCall.context) :
                    modelCall.context[c].tag # fetches[f].tag

\* ------------------------- meta-api.js: the create functions, called directly

StatusParams == { EmptyObject, [status |-> ""], [status |-> "PAUSED"], [status |-> "ACTIVE"] }

ExtraParams ==
    { EmptyObject, [extra |-> EmptyObject], [extra |-> [status |-> "ACTIVE"]],
      [extra |-> [status |-> "PAUSED"]], [extra |-> [bid_strategy |-> "LOWEST_COST_WITHOUT_CAP"]] }

BudgetParams == { EmptyObject, [daily_budget |-> 1000], [lifetime_budget |-> 5000] }

CreateCampaignParams ==
    { Merge(Merge([name |-> "C", objective |-> "OUTCOME_TRAFFIC"], s), e) :
        s \in StatusParams, e \in ExtraParams }

CreateAdSetParams ==
    { Merge(Merge(Merge([name |-> "S", campaign_id |-> 1], s), e), b) :
        s \in StatusParams, e \in ExtraParams, b \in BudgetParams }

CreateAdParams ==
    { Merge(Merge([name |-> "A", adset_id |-> 2, creative |-> [creative_id |-> 3]], s), e) :
        s \in StatusParams, e \in ExtraParams }

CallCreateCampaign ==
    /\ callFn = "createCampaign"
    /\ callBody = Null
    /\ callBody' = CampaignBody(callParams)
    /\ UNCHANGED <<callFn, callParams>>
    /\ UNCHANGED <<coreVars, sanVars, extVars, chatVars, setVars, cliVars>>

CallCreateAdSet ==
    /\ callFn = "createAdSet"
    /\ callBody = Null
    /\ callBody' = AdSetBody(callParams)
    /\ UNCHANGED <<callFn, callParams>>
    /\ UNCHANGED <<coreVars, sanVars, extVars, chatVars, setVars, cliVars>>

CallCreateAd ==
    /\ callFn = "createAd"
    /\ callBody = Null
    /\ callBody' = AdBody(callParams)
    /\ UNCHANGED <<callFn, callParams>>
    /\ UNCHANGED <<coreVars, sanVars, extVars, chatVars, setVars, cliVars>>

InitBodies ==
    /\ CoreIdle /\ SanIdle /\ ExtIdle /\ ChatIdle /\ SetIdle /\ CliIdle
    /\ \/ callFn = "createCampaign" /\ callParams \in CreateCampaignParams
       \/ callFn = "createAdSet" /\ callParams \in CreateAdSetParams
       \/ callFn = "createAd" /\ callParams \in CreateAdParams
    /\ callBody = Null

NextBodies ==
    \/ CallCreateCampaign
    \/ CallCreateAdSet
    \/ CallCreateAd

\* the three create functions applied to every bounded parameter object
SpecBodies == InitBodies /\ [][NextBodies]_vars

\* the parameters give no status: no params.status (or an empty one) and no
\* params.extra.status
NoStatusGiven(params) ==
    /\ ~TruthyStr(params, "status")
    /\ "status" \notin DOMAIN Extra(params)

\* C19: when the parameters of createCampaign, createAdSet or createAd give
\* no status, the body sent to the platform has status PAUSED.
DefaultStatusPaused ==
    (callBody # Null /\ NoStatusGiven(callParams)) =>
        "status" \in DOMAIN callBody /\ callBody.status = "PAUSED"

\* C19 witness: createAdSet was called without a status, with an extra
\* object that has no status, and sent PAUSED.
AdSetSentDefault ==
    /\ callBody # Null
    /\ callFn = "createAdSet"
    /\ NoStatusGiven(callParams)
    /\ "extra" \in DOMAIN callParams
    /\ "daily_budget" \in DOMAIN callBody
    /\ callBody.status = "PAUSED"

\* --------------------------------------- routes/settings.js: GET /api/settings

FacebookVars ==
    {"FACEBOOK_APP_ID", "FACEBOOK_APP_SECRET", "FACEBOOK_AD_ACCOUNT_ID", "FACEBOOK_ACCESS_TOKEN"}

ShopifyVars == {"SHOPIFY_CLIENT_ID", "SHOPIFY_API_KEY", "SHOPIFY_STORE_DOMAIN"}

ClaudeVars == {"ANTHROPIC_API_KEY", "ANTHROPIC_BASE_URL"}

EnvVars == FacebookVars \cup ShopifyVars \cup ClaudeVars

\* creds.claudeAiOauth.accessToken of ~/.claude/.credentials.json
CliToken == "claudeAiOauth.accessToken"

\* How one credential stands in the two environments: absent in the first
\* and empty in the second, blank in the first and absent in the second, or
\* set in both to different values.
PairKinds == {"unset", "blank", "set"}

First(kind) == IF kind = "blank" THEN " " ELSE "secret-A"

Second(kind) == IF kind = "unset" THEN "" ELSE "secret-B"

Env1(kinds) == [n \in {x \in DOMAIN kinds : kinds[x] # "unset"} |-> First(kinds[n])]

Env2(kinds) == [n \in {x \in DOMAIN kinds : kinds[x] # "blank"} |-> Second(kinds[n])]

\* the token is unset in both or set in both
EnvKinds ==
    { k \in [EnvVars \cup {CliToken} -> PairKinds] : k[CliToken] \in {"unset", "set"} }

\* value.trim(), for values with at most one blank
Trim(v) == IF v = " " THEN "" ELSE v

\* an isSet without the trim
IsSetUntrimmed(env, name) == name \in DOMAIN env /\ env[name] # ""

\* !!(process.env[name] && process.env[name].trim())
IsSet(env, name) == name \in DOMAIN env /\ env[name] # "" /\ Trim(env[name]) # ""

\* !!creds.claudeAiOauth?.accessToken, false when the file cannot be read
HasClaudeCliAuth(env) == CliToken \in DOMAIN env /\ env[CliToken] # ""

ClaudeMode(env) ==
    IF IsSet(env, "ANTHROPIC_API_KEY") THEN "api_key"
    ELSE IF IsSet(env, "ANTHROPIC_BASE_URL") THEN "local_proxy"
    ELSE IF HasClaudeCliAuth(env) THEN "cli_oauth"
    ELSE "unconfigured"

\* the object handed to res.json
Settings(env) ==
    [facebook |->
        [app_id |-> IsSet(env, "FACEBOOK_APP_ID"),
         app_secret |-> IsSet(env, "FACEBOOK_APP_SECRET"),
         ad_account_id |-> IsSet(env, "FACEBOOK_AD_ACCOUNT_ID"),
         access_token |-> IsSet(env, "FACEBOOK_ACCESS_TOKEN")],
     shopify |->
        [client_id |-> IsSet(env, "SHOPIFY_CLIENT_ID"),
         api_key |-> IsSet(env, "SHOPIFY_API_KEY"),
         store_domain |-> IsSet(env, "SHOPIFY_STORE_DOMAIN")],
     claude |->
        [api_key |-> IsSet(env, "ANTHROPIC_API_KEY"),
         base_url |-> IsSet(env, "ANTHROPIC_BASE_URL"),
         auth_mode |-> ClaudeMode(env)],
     configured |->
        [facebook |-> \A n \in FacebookVars : IsSet(env, n),
         shopify |-> \A n \in ShopifyVars : IsSet(env, n),
         claude |-> \/ IsSet(env, "ANTHROPIC_API_KEY")
                    \/ IsSet(env, "ANTHROPIC_BASE_URL")
                    \/ HasClaudeCliAuth(env)]]

\* GET /api/settings, answered in both environments
GetSettings ==
    /\ settings1 = Null
    /\ settings1' = Settings(env1)
    /\ settings2' = Settings(env2)
    /\ UNCHANGED <<env1, env2>>
    /\ UNCHANGED <<coreVars, sanVars, extVars, bodyVars, chatVars, cliVars>>

InitSettings ==
    /\ CoreIdle /\ SanIdle /\ ExtIdle /\ BodyIdle /\ ChatIdle /\ CliIdle
    /\ \E k \in EnvKinds : env1 = Env1(k) /\ env2 = Env2(k)
    /\ settings1 = Null
    /\ settings2 = Null

NextSettings == GetSettings

\* two environments whose credentials differ only in value, or in how they are blank
SpecSettings == InitSettings /\ [][NextSettings]_vars

AuthModes == {"api_key", "local_proxy", "cli_oauth", "unconfigured"}

FailedAtPlatform == pc = "failed" /\ calls # <<>>

LastCall == calls[Len(calls)]

\* C1: an object is ACTIVE on the platform only if an activate operation was
\* issued for it earlier; creation alone never produces an ACTIVE object.
ActiveOnlyAfterActivate ==
    \A n \in 1..Len(platform) : platform[n].status = "ACTIVE" => n \in activated

\* C2: the createCampaign request of create-from-spec always carries status
\* PAUSED, whatever status the specification's campaign entry requests.
CampaignRequestPaused ==
    \A k \in Calls :
        calls[k].op = "createCampaign" => calls[k].body.status = "PAUSED"

\* C3: every createAd request issued by create-from-spec carries status
\* PAUSED, whatever the specification's ad entry declares.
AdRequestsPaused ==
    \A k \in Calls : calls[k].op = "createAd" => calls[k].body.status = "PAUSED"

\* C3 witness: an ad was created for an entry declaring status ACTIVE, and
\* one for an entry passing status ACTIVE through `extra`.
AdCreatedForActiveEntries ==
    /\ \E k \in Calls :
        /\ calls[k].op = "createAd" /\ calls[k].ok
        /\ \E n \in 1..Len(AdsOf(spec)) :
            /\ AdsOf(spec)[n].name = calls[k].body.name
            /\ TruthyStr(AdsOf(spec)[n], "status")
            /\ AdsOf(spec)[n].status = "ACTIVE"
    /\ \E k \in Calls :
        /\ calls[k].op = "createAd" /\ calls[k].ok
        /\ \E n \in 1..Len(AdsOf(spec)) :
            /\ AdsOf(spec)[n].name = calls[k].body.name
            /\ "extra" \in DOMAIN AdsOf(spec)[n]

\* C4: every ad set a create-from-spec run creates is in paused status on the
\* platform, whatever the specification's ad-set entry contains.
AdSetsCreatedPaused ==
    \A k \in Calls :
        (calls[k].op = "createAdSet" /\ calls[k].ok)
            => platform[calls[k].id].status = "PAUSED"

\* C5: a specification whose campaign.status is ACTIVE is rejected before
\* execution: no platform create call is issued for it.
ActiveSpecRejected ==
    ("campaign" \in DOMAIN spec /\ TruthyStr(spec.campaign, "status")
        /\ spec.campaign.status = "ACTIVE")
        => calls = <<>>

\* C6: no createAdSet request is sent for an ad set declaring both a daily and
\* a lifetime budget, or neither.
BudgetExclusive ==
    \A k \in Calls :
        calls[k].op = "createAdSet"
            => ("daily_budget" \in DOMAIN calls[k].body)
                   # ("lifetime_budget" \in DOMAIN calls[k].body)

\* C7: when a platform step fails, the caller receives a result listing
\* exactly the objects created before the failure.
PartialResultReported ==
    FailedAtPlatform
        => ("results" \in DOMAIN response.body /\ response.body.results = results)

\* C8: a failed run reports which step failed together with the platform's
\* original error code and message.
FailedStepReported ==
    FailedAtPlatform
        => /\ response.body.step = LastCall.op
           /\ response.body.error = LastCall.err.message
           /\ "code" \in DOMAIN response.body
           /\ response.body.code = LastCall.err.code

\* C9: after a platform create call fails, the invocation issues no further
\* platform call: a failed call is the last one of the invocation, the handler
\* is in its catch block, and the platform holds exactly the objects of the
\* calls that succeeded (nothing was retried, added or deleted).
NoCallAfterFailure ==
    /\ \A k \in Calls : ~calls[k].ok => (k = Len(calls) /\ pc = "failed")
    /\ Len(platform) = Cardinality({k \in Calls : calls[k].ok})
    /\ \A k \in Calls : calls[k].ok => calls[k].id \in 1..Len(platform)

\* C9 witness: a call failed while a later ad set and ads were still to be created.
FailedWithSiblingsPending ==
    /\ FailedAtPlatform
    /\ ~LastCall.ok
    /\ LastCall.op = "createAdSet"
    /\ i < Len(AdSetsOf(spec))
    /\ NextAd(spec, 0) # 0

\* the ids of the objects the run created on the platform
CreatedIds == {calls[k].id : k \in {n \in Calls : calls[n].ok}}

\* the ids the results object lists
ListedIds ==
    (IF results.campaign = Null THEN {} ELSE {results.campaign.id})
        \cup {results.ad_sets[n].id : n \in 1..Len(results.ad_sets)}
        \cup {results.ads[n].id : n \in 1..Len(results.ads)}

\* C10: at the end of every run, the objects the run created on the platform
\* are exactly the objects listed in the result's campaign, ad_sets and ads.
ResultExhaustive == Terminated => CreatedIds = ListedIds

\* every call the invocation issued so far succeeded
AllCallsOk == \A k \in Calls : calls[k].ok

\* the ads of the specification that carry a creative with an object_story_spec
CreativeAds(s) == {n \in 1..Len(AdsOf(s)) : HasCreative(AdsOf(s)[n])}

SigKeys == {"name", "daily_budget", "lifetime_budget"}

\* what a request is and for which entry: its operation and the entry's name and budgets
CallSig(c) == [op |-> c.op, sig |-> Pick(c.body, SigKeys)]

RECURSIVE AdSigs(_, _)
\* the requests one pass over the ad list owes, from ad n on
AdSigs(s, n) ==
    IF n > Len(AdsOf(s)) THEN <<>>
    ELSE (IF HasCreative(AdsOf(s)[n])
          THEN << [op |-> "createAdCreative",
                   sig |-> [name |-> CreativeParams(AdsOf(s)[n]).name]],
                  [op |-> "createAd", sig |-> Pick(AdsOf(s)[n], {"name"})] >>
          ELSE <<>>) \o AdSigs(s, n + 1)

RECURSIVE AdSetSigs(_, _)
\* the requests the ad sets owe, from ad set n on
AdSetSigs(s, n) ==
    IF n > Len(AdSetsOf(s)) THEN <<>>
    ELSE << [op |-> "createAdSet", sig |-> Pick(AdSetsOf(s)[n], SigKeys)] >>
             \o AdSigs(s, 1) \o AdSetSigs(s, n + 1)

\* the requests a run without failure owes, in order
ExpectedSigs(s) ==
    << [op |-> "createCampaign", sig |-> Pick(s.campaign, SigKeys)] >> \o AdSetSigs(s, 1)

CallsOf(op) == { k \in Calls : calls[k].op = op }

\* the identifiers the successful calls of operation op returned, in order
OkIds(op) ==
    LET ok == SelectSeq(calls, LAMBDA c : c.op = op /\ c.ok)
    IN [n \in 1..Len(ok) |-> [id |-> ok[n].id]]

\* how many calls of operation op were issued up to call k
Rank(op, k) == Cardinality({ x \in CallsOf(op) : x <= k })

\* C21: every createAdSet call follows the run's successful createCampaign
\* call and carries the identifier it returned; the n-th createAdSet call is
\* for the n-th ad-set entry; and every created ad set is in the result
\* before the next call is issued.
AdSetsBoundInOrder ==
    /\ \A k \in CallsOf("createAdSet") :
         /\ k > 1
         /\ calls[1].op = "createCampaign" /\ calls[1].ok
         /\ calls[k].body.campaign_id = calls[1].id
         /\ Rank("createAdSet", k) <= Len(AdSetsOf(spec))
         /\ calls[k].body.name = AdSetsOf(spec)[Rank("createAdSet", k)].name
    /\ results.ad_sets = OkIds("createAdSet")

\* the last createAdSet call before call k (0: none)
AdSetCallBefore(k) ==
    LET S == { x \in CallsOf("createAdSet") : x < k }
    IN IF S = {} THEN 0 ELSE CHOOSE x \in S : \A y \in S : y <= x

\* C22: every createAd call directly follows the successful createAdCreative
\* call of the same ad and carries the identifier that call returned and the
\* identifier of the ad set the loop is at, the last one created.
AdBoundToOwnCreative ==
    \A k \in CallsOf("createAd") :
        /\ k > 1
        /\ calls[k - 1].op = "createAdCreative" /\ calls[k - 1].ok
        /\ calls[k].body.creative.creative_id = calls[k - 1].id
        /\ AdSetCallBefore(k) # 0
        /\ calls[AdSetCallBefore(k)].ok
        /\ calls[k].body.adset_id = calls[AdSetCallBefore(k)].id
        /\ \E n \in 1..Len(AdsOf(spec)) :
             /\ HasCreative(AdsOf(spec)[n])
             /\ calls[k].body.name = AdsOf(spec)[n].name
             /\ calls[k - 1].body = AdCreativeBody(CreativeParams(AdsOf(spec)[n]))

\* C22 witness: a run created ads under two ad sets, and the last ad is
\* bound to the second ad set.
AdsUnderTwoAdSets ==
    /\ pc = "done"
    /\ Len(results.ad_sets) = 2
    /\ Len(results.ads) >= 2
    /\ calls[Len(calls)].op = "createAd"
    /\ calls[Len(calls)].body.adset_id = results.ad_sets[2].id
    /\ calls[4].op = "createAd"
    /\ calls[Len(calls)].body.adset_id # calls[4].body.adset_id

\* C23 as stated: no step of a run changes the specification.
SpecNeverModified == [][spec' = spec]_vars

\* the creatives created so far that no created ad references
LooseCreatives ==
    { calls[k].id : k \in { x \in CallsOf("createAdCreative") : calls[x].ok } }
    \ { calls[k].body.creative.creative_id : k \in { x \in CallsOf("createAd") : calls[x].ok } }

\* C30: every created ad references an ad set already recorded in
\* results.ad_sets, and at most one created creative is referenced by no
\* created ad.
AdsReferenceRecorded ==
    /\ \A k \in CallsOf("createAd") :
         calls[k].ok => \E n \in 1..Len(results.ad_sets) :
                            results.ad_sets[n].id = calls[k].body.adset_id
    /\ Cardinality(LooseCreatives) <= 1

\* C30 witness: after an ad was created, a later createAd failed and left
\* its creative unreferenced.
FailedAdLeftCreative ==
    /\ pc = "failed"
    /\ Len(results.ads) >= 1
    /\ calls[Len(calls)].op = "createAd"
    /\ Cardinality(LooseCreatives) = 1

\* C26: a call of sanitizeMessages leaves the input array and every entry of
\* it as they were, and returns what the function computes by value.
InputUnchanged ==
    [][/\ messages' = messages
       /\ (IsArray(messages) /\ sanitized = Null /\ sanitized' # Null)
            => sanitized'.arr = OutputOnHeap(messages)]_vars

\* C26 witness: a call that merged two entries and prepended the synthetic
\* turn has returned.
MergedAndPrepended ==
    /\ sanitized # Null
    /\ IsArray(messages)
    /\ Len(Cleaned(messages.arr)) = 3
    /\ Len(sanitized.arr) = 3
    /\ sanitized.arr[1].content = Hello
    /\ sanitized.arr[2].content = <<"b">> \o ParagraphBreak \o <<"a">>

\* an entry has a string for its role
HasRole(m) == m # Null /\ "role" \in DOMAIN m /\ IsString(m.role)

\* an entry has a string with a non-blank character for its text
HasText(m) ==
    /\ m # Null /\ "content" \in DOMAIN m /\ IsString(m.content)
    /\ \E k \in 1..Len(m.content.str) : m.content.str[k] # " "

\* an entry has a string role other than user and assistant
OtherRole(m) == HasRole(m) /\ m.role.str \notin {"user", "assistant"}

\* the texts of the entries of l that satisfy Keep, one after the other
TextsOf(l, Keep(_)) ==
    Concat([k \in 1..Len(l) |-> IF Keep(l[k]) THEN l[k].content.str ELSE <<>>])

\* the texts of the turns of out, one after the other, without the breaks
RECURSIVE TurnTexts(_)
TurnTexts(out) ==
    IF out = <<>> THEN <<>>
    ELSE SelectSeq(Head(out).content, LAMBDA c : c # "\n") \o TurnTexts(Tail(out))

\* the output's own turns: without the synthetic turn, if one was prepended
Own(out) == IF out # <<>> /\ out[1].content = Hello THEN Tail(out) ELSE out

\* an entry C24 as stated has dropped: role not user or assistant, or text blank
DroppedAsStated(m) ==
    ~(HasRole(m) /\ m.role.str \in {"user", "assistant"} /\ HasText(m))

\* an entry the amended C24 has dropped: no string role, or no non-blank text
DroppedNoRoleOrText(m) == ~(HasRole(m) /\ HasText(m))

KeptAsStated(m) == ~DroppedAsStated(m)

KeptWithRoleAndText(m) == ~DroppedNoRoleOrText(m)

\* C24 as stated: an entry whose role is not user or assistant, or whose
\* text is empty or blank, contributes no turn and no text: the output
\* is that of the list without these entries and holds only the other texts.
UnrecognizedDropped ==
    (sanitized # Null /\ IsArray(messages)) =>
        /\ sanitized.arr = SanitizeMessages(Arr(SelectSeq(messages.arr, KeptAsStated)))
        /\ TurnTexts(Own(sanitized.arr)) = TextsOf(messages.arr, KeptAsStated)

\* C24 amended: an entry that is null, has no string role or has no string
\* text with a non-blank character contributes no turn and no text.
RolelessOrBlankDropped ==
    (sanitized # Null /\ IsArray(messages)) =>
        /\ sanitized.arr = SanitizeMessages(Arr(SelectSeq(messages.arr, KeptWithRoleAndText)))
        /\ TurnTexts(Own(sanitized.arr)) = TextsOf(messages.arr, KeptWithRoleAndText)
        /\ (\A k \in 1..Len(messages.arr) : DroppedNoRoleOrText(messages.arr[k]))
              => sanitized.arr = <<>>

\* C24 witness: of three entries, a blank one and one without a role were
\* dropped and the third was returned alone.
OnlyThirdKept ==
    /\ sanitized # Null
    /\ IsArray(messages)
    /\ Len(messages.arr) = 3
    /\ messages.arr[1] = [role |-> Str("user"), content |-> Str(<<" ">>)]
    /\ messages.arr[2] = [content |-> Str(<<"a">>)]
    /\ sanitized.arr = <<[role |-> "user", content |-> <<"b">>]>>

\* an entry C25 as stated keeps: a user or assistant entry with text, or
\* any entry with a non-empty text whose role is neither
KeptOrCoercedAsStated(m) ==
    /\ m # Null /\ "content" \in DOMAIN m /\ IsString(m.content)
    /\ IF HasRole(m) /\ m.role.str \in {"user", "assistant"}
       THEN HasText(m)
       ELSE m.content.str # <<>>

\* the entry with role user in place of another string role
AsUser(m) == IF OtherRole(m) THEN [m EXCEPT !.role = Str("user")] ELSE m

\* C25 as stated: every entry with a non-empty text whose role is neither
\* user nor assistant is kept, and every output turn is user or assistant.
AnyOtherRoleKept ==
    (sanitized # Null /\ IsArray(messages)) =>
        /\ \A k \in 1..Len(sanitized.arr) : sanitized.arr[k].role \in {"user", "assistant"}
        /\ TurnTexts(Own(sanitized.arr)) = TextsOf(messages.arr, KeptOrCoercedAsStated)

\* C25 amended: an entry with a non-blank text whose role is a string other
\* than user and assistant is kept and treated as a user turn, and every
\* output turn is user or assistant.
OtherStringRoleAsUser ==
    (sanitized # Null /\ IsArray(messages)) =>
        /\ \A k \in 1..Len(sanitized.arr) : sanitized.arr[k].role \in {"user", "assistant"}
        /\ TurnTexts(Own(sanitized.arr)) = TextsOf(messages.arr, KeptWithRoleAndText)
        /\ sanitized.arr =
              SanitizeMessages(Arr([k \in 1..Len(messages.arr) |-> AsUser(messages.arr[k])]))

\* C25 witness: a system entry after an assistant entry was returned as a
\* user turn.
SystemReturnedAsUser ==
    /\ sanitized # Null
    /\ IsArray(messages)
    /\ Len(messages.arr) = 2
    /\ messages.arr[1] = [role |-> Str("assistant"), content |-> Str(<<"b">>)]
    /\ messages.arr[2] = [role |-> Str("system"), content |-> Str(<<"a">>)]
    /\ Len(sanitized.arr) = 3
    /\ sanitized.arr[3] = [role |-> "user", content |-> <<"a">>]

\* the returned list as an argument of the next call
AsMessages(out) ==
    Arr([k \in 1..Len(out) |-> [role |-> Str(out[k].role), content |-> Str(out[k].content)]])

\* C29: sanitizeMessages applied to its own output returns that output.
SanitizeIdempotent ==
    sanitized # Null => SanitizeMessages(AsMessages(sanitized.arr)) = sanitized.arr

\* C29 witness: an output that begins with the synthetic turn and holds a
\* merged turn.
SyntheticAndMergedOutput ==
    /\ sanitized # Null
    /\ Len(sanitized.arr) = 2
    /\ sanitized.arr[1].content = Hello
    /\ Len(sanitized.arr[2].content) > 1

\* C27 as stated: every value the extractor returns other than null is an
\* object with a campaign key.
ExtractedIsSpecShaped ==
    (extracted # Null /\ ~extracted.threw /\ extracted.value # Null) =>
        /\ "obj" \in DOMAIN extracted.value
        /\ "campaign" \in extracted.value.obj

\* C28: a request is only issued while none is pending, and issuing it
\* disables the button until the answer arrives.
OneRequestInFlight ==
    [][/\ submits' # submits => (~inflight /\ inflight' /\ btn'.disabled)
       /\ inflight' => btn'.disabled]_vars

\* C28 witness: the second submission of a preview is pending, its run at
\* the platform under way, and the button is disabled.
SecondSubmissionPending ==
    /\ inflight
    /\ btn.disabled
    /\ submits = 2
    /\ pc = "adset"

====
